---- MODULE Spec2Model ----
(***************************************************************************)
(* db_sync: a sender (db_sync_client.py) that extracts the rows of a       *)
(* source table above a cursor and writes them, JSON encoded, to a TLS     *)
(* byte stream, and a receiver (db_sync_server.py) that re-assembles the   *)
(* JSON document from the stream and applies it to a target table.         *)
(*                                                                         *)
(* A byte is a one-character string, a text a sequence of bytes.           *)
(***************************************************************************)
EXTENDS Integers, Sequences, FiniteSets, TLC

(***************************************************************************)
(* Python values that travel through json.dumps / json.loads.  Every value *)
(* is a tagged record; each tag has its own field name.                    *)
(***************************************************************************)
JNull == [t |-> "null"]
JBool(b) == [t |-> "bool", b |-> b]
JInt(n) == [t |-> "int", n |-> n]
JStr(s) == [t |-> "str", s |-> s]
JList(items) == [t |-> "list", items |-> items]
JDict(members) == [t |-> "dict", members |-> members]

T_schema == <<"s", "c", "h", "e", "m", "a">>
T_data == <<"d", "a", "t", "a">>
T_name == <<"n", "a", "m", "e">>
T_type == <<"t", "y", "p", "e">>
T_id == <<"i", "d">>
T_null == <<"n", "u", "l", "l">>
T_true == <<"t", "r", "u", "e">>
T_false == <<"f", "a", "l", "s", "e">>
T_column1 == <<"c", "o", "l", "u", "m", "n", "1">>
T_column2 == <<"c", "o", "l", "u", "m", "n", "2">>

Digits == <<"0", "1", "2", "3", "4", "5", "6", "7", "8", "9">>
IsDigit(c) == c \in {"0", "1", "2", "3", "4", "5", "6", "7", "8", "9"}
DigitValue(c) == (CHOOSE d \in 1..10 : Digits[d] = c) - 1
IsSpace(c) == c \in {" ", "\t", "\n", "\r"}

(***************************************************************************)
(* json.dumps with the default separators (", " and ": ").                 *)
(***************************************************************************)
RECURSIVE NatText(_)
NatText(n) == IF n < 10 THEN <<Digits[n + 1]>>
              ELSE NatText(n \div 10) \o <<Digits[(n % 10) + 1]>>

IntText(n) == IF n < 0 THEN <<"-">> \o NatText(0 - n) ELSE NatText(n)

RECURSIVE EscapeText(_)
EscapeText(s) ==
    IF s = <<>> THEN <<>>
    ELSE (IF Head(s) \in {"\"", "\\"} THEN <<"\\", Head(s)>> ELSE <<Head(s)>>)
         \o EscapeText(Tail(s))

StrText(s) == <<"\"">> \o EscapeText(s) \o <<"\"">>

RECURSIVE dumps(_), DumpItems(_), DumpMembers(_)
dumps(v) ==
    CASE v.t = "null" -> T_null
      [] v.t = "bool" -> (IF v.b THEN T_true ELSE T_false)
      [] v.t = "int" -> IntText(v.n)
      [] v.t = "str" -> StrText(v.s)
      [] v.t = "list" -> <<"[">> \o DumpItems(v.items) \o <<"]">>
      [] v.t = "dict" -> <<"{">> \o DumpMembers(v.members) \o <<"}">>

DumpItems(items) ==
    IF items = <<>> THEN <<>>
    ELSE dumps(Head(items))
         \o (IF Len(items) > 1 THEN <<",", " ">> \o DumpItems(Tail(items)) ELSE <<>>)

DumpMembers(members) ==
    IF members = <<>> THEN <<>>
    ELSE StrText(Head(members).k) \o <<":", " ">> \o dumps(Head(members).v)
         \o (IF Len(members) > 1 THEN <<",", " ">> \o DumpMembers(Tail(members))
             ELSE <<>>)

(***************************************************************************)
(* json.loads: a recursive-descent parse of the whole text.  A parse       *)
(* result is [ok, v, i]: i is the index of the first byte after the value. *)
(***************************************************************************)
ParseError == [ok |-> FALSE, v |-> JNull, i |-> 0]
Parsed(v, i) == [ok |-> TRUE, v |-> v, i |-> i]

RECURSIVE SkipSpace(_, _)
SkipSpace(s, i) == IF i <= Len(s) /\ IsSpace(s[i]) THEN SkipSpace(s, i + 1) ELSE i

HasText(s, i, w) == i + Len(w) - 1 <= Len(s) /\ SubSeq(s, i, i + Len(w) - 1) = w

\* the bytes of a string after its opening quote, up to the closing quote
RECURSIVE ScanString(_, _, _)
ScanString(s, i, acc) ==
    IF i > Len(s) THEN ParseError
    ELSE IF s[i] = "\"" THEN Parsed(JStr(acc), i + 1)
    ELSE IF s[i] = "\\"
         THEN IF i + 1 <= Len(s) /\ s[i + 1] \in {"\"", "\\"}
              THEN ScanString(s, i + 2, Append(acc, s[i + 1]))
              ELSE ParseError
    ELSE ScanString(s, i + 1, Append(acc, s[i]))

RECURSIVE ScanDigits(_, _, _)
ScanDigits(s, i, acc) ==
    IF i <= Len(s) /\ IsDigit(s[i])
    THEN ScanDigits(s, i + 1, 10 * acc + DigitValue(s[i]))
    ELSE [n |-> acc, i |-> i]

\* -?(0|[1-9][0-9]*), from the first digit j on
Signed(neg, d) == Parsed(JInt(IF neg THEN 0 - d.n ELSE d.n), d.i)

ScanUnsigned(s, j, neg) ==
    IF j > Len(s) \/ ~IsDigit(s[j]) THEN ParseError
    ELSE IF s[j] = "0" THEN Parsed(JInt(0), j + 1)
    ELSE Signed(neg, ScanDigits(s, j, 0))

ScanNumber(s, i) ==
    IF i <= Len(s) /\ s[i] = "-" THEN ScanUnsigned(s, i + 1, TRUE)
    ELSE ScanUnsigned(s, i, FALSE)

\* dict[k] = v : a repeated key keeps its place and takes the later value
DictSet(members, k, v) ==
    IF \E j \in 1..Len(members) : members[j].k = k
    THEN [j \in 1..Len(members) |->
             IF members[j].k = k THEN [k |-> k, v |-> v] ELSE members[j]]
    ELSE Append(members, [k |-> k, v |-> v])

\* ScanValue(s, i): the value that starts at byte i.
\* ScanItems(s, i, acc): the items of a list from byte i on, the first byte
\* of an item; acc holds the items before it.  ItemEnd, ItemNext: what
\* follows the item parsed as r.
\* ScanMembers(s, i, acc): the members of a dict from byte i on, the opening
\* quote of a key; acc holds the members before it.  KeyEnd, Colon: what
\* follows the key; MemberEnd, MemberNext: what follows the value r.
RECURSIVE ScanValue(_, _), OpenDict(_, _), OpenList(_, _),
          ScanItems(_, _, _), ItemEnd(_, _, _), ItemNext(_, _, _),
          ScanMembers(_, _, _), KeyEnd(_, _, _), Colon(_, _, _, _),
          MemberEnd(_, _, _, _), MemberNext(_, _, _)
ScanValue(s, i) ==
    IF i > Len(s) THEN ParseError
    ELSE CASE s[i] = "\"" -> ScanString(s, i + 1, <<>>)
           [] s[i] = "{" -> OpenDict(s, SkipSpace(s, i + 1))
           [] s[i] = "[" -> OpenList(s, SkipSpace(s, i + 1))
           [] s[i] = "n" ->
                IF HasText(s, i, T_null) THEN Parsed(JNull, i + 4) ELSE ParseError
           [] s[i] = "t" ->
                IF HasText(s, i, T_true) THEN Parsed(JBool(TRUE), i + 4) ELSE ParseError
           [] s[i] = "f" ->
                IF HasText(s, i, T_false) THEN Parsed(JBool(FALSE), i + 5) ELSE ParseError
           [] OTHER -> ScanNumber(s, i)

OpenDict(s, j) ==
    IF j <= Len(s) /\ s[j] = "}" THEN Parsed(JDict(<<>>), j + 1)
    ELSE ScanMembers(s, j, <<>>)

OpenList(s, j) ==
    IF j <= Len(s) /\ s[j] = "]" THEN Parsed(JList(<<>>), j + 1)
    ELSE ScanItems(s, j, <<>>)

ScanItems(s, i, acc) == ItemEnd(s, ScanValue(s, i), acc)

ItemEnd(s, r, acc) ==
    IF ~r.ok THEN ParseError
    ELSE ItemNext(s, SkipSpace(s, r.i), Append(acc, r.v))

ItemNext(s, j, items) ==
    IF j > Len(s) THEN ParseError
    ELSE IF s[j] = "," THEN ScanItems(s, SkipSpace(s, j + 1), items)
    ELSE IF s[j] = "]" THEN Parsed(JList(items), j + 1)
    ELSE ParseError

ScanMembers(s, i, acc) ==
    IF i > Len(s) \/ s[i] # "\"" THEN ParseError
    ELSE KeyEnd(s, ScanString(s, i + 1, <<>>), acc)

KeyEnd(s, key, acc) ==
    IF ~key.ok THEN ParseError
    ELSE Colon(s, SkipSpace(s, key.i), key.v.s, acc)

Colon(s, c, k, acc) ==
    IF c > Len(s) \/ s[c] # ":" THEN ParseError
    ELSE MemberEnd(s, ScanValue(s, SkipSpace(s, c + 1)), k, acc)

MemberEnd(s, r, k, acc) ==
    IF ~r.ok THEN ParseError
    ELSE MemberNext(s, SkipSpace(s, r.i), DictSet(acc, k, r.v))

MemberNext(s, j, members) ==
    IF j > Len(s) THEN ParseError
    ELSE IF s[j] = "," THEN ScanMembers(s, SkipSpace(s, j + 1), members)
    ELSE IF s[j] = "}" THEN Parsed(JDict(members), j + 1)
    ELSE ParseError

\* the text must end after the value and the white space that follows it
WholeText(text, r) ==
    IF r.ok /\ SkipSpace(text, r.i) = Len(text) + 1 THEN r ELSE ParseError

\* json.loads(text): ok is FALSE where json.loads raises JSONDecodeError
loads(text) == WholeText(text, ScanValue(text, SkipSpace(text, 1)))

(***************************************************************************)
(* The source store: one table with the columns (id, name), id its integer *)
(* primary key drawn from a sequence (positive, never reused, growing).    *)
(* The table is the set of its keys; the row of key k is RowOf(k).         *)
(***************************************************************************)
MaxKey == 4

T_integer == <<"i", "n", "t", "e", "g", "e", "r">>
T_text == <<"t", "e", "x", "t">>

\* information_schema.columns of the source table: (column_name, data_type)
SourceColumns == << <<T_id, T_integer>>, <<T_name, T_text>> >>

NameOf(k) ==
    CASE k = 1 -> <<"a">>
      [] k = 2 -> <<"}">>
      [] k = 3 -> <<"\"">>
      [] k = 4 -> <<"d">>
      [] OTHER -> <<"e", "]">>

RowOf(k) == <<JInt(k), JStr(NameOf(k))>>

Lowercase == <<"a", "b", "c", "d", "e", "f", "g", "h", "i", "j", "k", "l", "m",
               "n", "o", "p", "q", "r", "s", "t", "u", "v", "w", "x", "y", "z">>
Uppercase == <<"A", "B", "C", "D", "E", "F", "G", "H", "I", "J", "K", "L", "M",
               "N", "O", "P", "Q", "R", "S", "T", "U", "V", "W", "X", "Y", "Z">>

\* str.upper()
upper(s) ==
    [i \in 1..Len(s) |->
        IF \E j \in 1..26 : Lowercase[j] = s[i]
        THEN Uppercase[CHOOSE j \in 1..26 : Lowercase[j] = s[i]]
        ELSE s[i]]

SetMax(S) == CHOOSE x \in S : \A y \in S : y <= x
SetMin(S) == CHOOSE x \in S : \A y \in S : x <= y

\* ... ORDER BY id DESC, in place of ORDER BY id
RECURSIVE OrderByIdDesc(_)
OrderByIdDesc(keys) ==
    IF keys = {} THEN <<>>
    ELSE <<RowOf(SetMax(keys))>> \o OrderByIdDesc(keys \ {SetMax(keys)})

\* ... ORDER BY id
RECURSIVE OrderById(_)
OrderById(keys) ==
    IF keys = {} THEN <<>>
    ELSE <<RowOf(SetMin(keys))>> \o OrderById(keys \ {SetMin(keys)})

\* query_table_schema: [] when the catalog query raises
query_table_schema(catalogFails) ==
    IF catalogFails THEN <<>>
    ELSE [i \in 1..Len(SourceColumns) |->
             [name |-> SourceColumns[i][1], type |-> upper(SourceColumns[i][2])]]

\* the id of the first row, in place of rows[-1][0]
FirstId(rows, last_sent_id) ==
    IF rows # <<>> THEN rows[1][1].n ELSE last_sent_id

\* lines 141-145: new_last_sent_id, the id of the last row
LastId(rows, last_sent_id) ==
    IF rows # <<>> THEN rows[Len(rows)][1].n ELSE last_sent_id

\* query_table that queries the schema whatever the cursor
query_table_with_schema(keys, last_sent_id, selectFails, catalogFails) ==
    IF selectFails
    THEN [schema |-> <<>>, data |-> <<>>, new_last_sent_id |-> last_sent_id]
    ELSE [schema |-> query_table_schema(catalogFails),
          data |-> OrderById({k \in keys : k > last_sent_id}),
          new_last_sent_id |-> LastId(OrderById({k \in keys : k > last_sent_id}),
                                      last_sent_id)]

\* query_table with WHERE id >= %s
query_table_inclusive(keys, last_sent_id, selectFails, catalogFails) ==
    IF selectFails
    THEN [schema |-> <<>>, data |-> <<>>, new_last_sent_id |-> last_sent_id]
    ELSE [schema |-> IF last_sent_id = 0 THEN query_table_schema(catalogFails)
                     ELSE <<>>,
          data |-> OrderById({k \in keys : k >= last_sent_id}),
          new_last_sent_id |-> LastId(OrderById({k \in keys : k >= last_sent_id}),
                                      last_sent_id)]

\* query_table(connection, table_name, last_sent_id) on the table `keys`.
\* selectFails: the SELECT raises psycopg2.Error.
query_table(keys, last_sent_id, selectFails, catalogFails) ==
    IF selectFails
    THEN [schema |-> <<>>, data |-> <<>>, new_last_sent_id |-> last_sent_id]
    ELSE LET rows == IF last_sent_id > 0
                     THEN OrderById({k \in keys : k > last_sent_id})
                     ELSE OrderById(keys)
         IN  [schema |-> IF last_sent_id = 0 THEN query_table_schema(catalogFails)
                         ELSE <<>>,
              data |-> rows,
              new_last_sent_id |-> LastId(rows, last_sent_id)]

\* send_payload = {'schema': payload['schema'], 'data': payload['data']}
send_payload(payload) ==
    JDict(<< [k |-> T_schema,
              v |-> JList([i \in 1..Len(payload.schema) |->
                             JDict(<< [k |-> T_name, v |-> JStr(payload.schema[i].name)],
                                      [k |-> T_type, v |-> JStr(payload.schema[i].type)] >>)])],
             [k |-> T_data,
              v |-> JList([i \in 1..Len(payload.data) |-> JList(payload.data[i])])] >>)

\* json.dumps(send_payload).encode('utf-8'): the text is ASCII
encode(payload) == dumps(send_payload(payload))

(***************************************************************************)
(* The target store: a catalog of tables and the rows of the synced table  *)
(* in insertion order.  A stored row holds one value per table column.     *)
(***************************************************************************)
table_name == <<"t">>

EmptyStore == [tables |-> {}, rows |-> <<>>]

TableExists(store) == \E tb \in store.tables : tb.name = table_name
TableCols(store) == (CHOOSE tb \in store.tables : tb.name = table_name).cols

HasKey(d, k) == d.t = "dict" /\ \E j \in 1..Len(d.members) : d.members[j].k = k
Get(d, k) == d.members[CHOOSE j \in 1..Len(d.members) : d.members[j].k = k].v

IsScalar(v) == v.t \in {"null", "bool", "int", "str"}

\* the column definitions CREATE TABLE can be built from: a list of dicts
\* whose 'name' and 'type' are non-empty strings, no name twice
IsColumn(col) ==
    /\ HasKey(col, T_name) /\ HasKey(col, T_type)
    /\ Get(col, T_name).t = "str" /\ Get(col, T_name).s # <<>>
    /\ Get(col, T_type).t = "str" /\ Get(col, T_type).s # <<>>

ValidColumns(schema) ==
    /\ schema.t = "list"
    /\ \A i \in 1..Len(schema.items) : IsColumn(schema.items[i])
    /\ \A i, j \in 1..Len(schema.items) :
          i # j => Get(schema.items[i], T_name).s # Get(schema.items[j], T_name).s

ColumnsOf(schema) ==
    [i \in 1..Len(schema.items) |->
        [name |-> Get(schema.items[i], T_name).s,
         type |-> Get(schema.items[i], T_type).s]]

\* apply_schema without the look in the catalog: CREATE TABLE every time
apply_schema_unchecked(store, schema, stmtFails) ==
    IF stmtFails \/ TableExists(store) \/ ~ValidColumns(schema)
    THEN [ok |-> FALSE, store |-> store]
    ELSE [ok |-> TRUE,
          store |-> [store EXCEPT !.tables =
                       @ \cup {[name |-> table_name, cols |-> ColumnsOf(schema)]}]]

\* apply_schema that alters an existing table to match the schema
apply_schema_altering(store, schema, stmtFails) ==
    IF stmtFails \/ ~ValidColumns(schema) THEN [ok |-> FALSE, store |-> store]
    ELSE [ok |-> TRUE,
          store |-> [store EXCEPT !.tables =
                       {tb \in @ : tb.name # table_name}
                          \cup {[name |-> table_name, cols |-> ColumnsOf(schema)]}]]

\* apply_schema(connection, table_name, schema).  stmtFails: a statement
\* raises psycopg2.Error (the store is unavailable).
apply_schema(store, schema, stmtFails) ==
    IF stmtFails THEN [ok |-> FALSE, store |-> store]
    ELSE IF ~TableExists(store)
         THEN IF ValidColumns(schema)
              THEN [ok |-> TRUE,
                    store |-> [store EXCEPT !.tables =
                                 @ \cup {[name |-> table_name,
                                          cols |-> ColumnsOf(schema)]}]]
              ELSE [ok |-> FALSE, store |-> store]
         ELSE [ok |-> TRUE, store |-> store]

\* insert_row(connection, table_name, row_data): row_data is the dict as
\* the sequence of its (key, value) members.  INSERT INTO t (k1, ..) VALUES
\* (..) raises for a missing table, an empty column list, a column the
\* table does not have and a value that is no scalar.
insert_row(store, row_data, stmtFails) ==
    IF /\ ~stmtFails
       /\ TableExists(store)
       /\ row_data # <<>>
       /\ \A j \in 1..Len(row_data) :
             /\ \E c \in 1..Len(TableCols(store)) : TableCols(store)[c].name = row_data[j].k
             /\ IsScalar(row_data[j].v)
    THEN [ok |-> TRUE,
          store |-> [store EXCEPT !.rows =
                       Append(@, [c \in 1..Len(TableCols(store)) |->
                                    IF \E j \in 1..Len(row_data) :
                                          row_data[j].k = TableCols(store)[c].name
                                    THEN row_data[CHOOSE j \in 1..Len(row_data) :
                                           row_data[j].k = TableCols(store)[c].name].v
                                    ELSE JNull])]]
    ELSE [ok |-> FALSE, store |-> store]

(***************************************************************************)
(* handle_client_data, from the parsed payload on (lines 201-235).         *)
(* fault: 0 = no statement fails, -1 = the statements of apply_schema      *)
(* fail, i > 0 = the i-th insert_row call of the frame fails.              *)
(***************************************************************************)
Raised == [raised |-> TRUE, d |-> <<>>]
Built(d) == [raised |-> FALSE, d |-> d]

Min(a, b) == IF a <= b THEN a ELSE b

CanLen(row) == row.t \in {"list", "str"}
RowLen(row) == IF row.t = "list" THEN Len(row.items) ELSE Len(row.s)
RowAt(row, i) == IF row.t = "list" THEN row.items[i] ELSE JStr(<<row.s[i]>>)

\* for i, col in enumerate(schema): if i < len(row): row_dict[col['name']] = row[i]
RECURSIVE ZipColumns(_, _, _, _)
ZipColumns(schema, row, i, d) ==
    IF i > Min(Len(schema.items), RowLen(row)) THEN d
    ELSE ZipColumns(schema, row, i + 1,
                    DictSet(d, Get(schema.items[i], T_name).s, RowAt(row, i)))

\* lines 223-227: the mapping of a positional row, by the schema of the
\* frame (a schema that is no list is taken to raise at its first use)
SchemaRowDict(schema, row) ==
    IF schema.t # "list" THEN Raised
    ELSE IF schema.items = <<>> THEN Built(<<>>)
    ELSE IF ~CanLen(row) THEN Raised
    ELSE IF \E i \in 1..Min(Len(schema.items), RowLen(row)) :
               ~(HasKey(schema.items[i], T_name) /\ Get(schema.items[i], T_name).t = "str")
         THEN Raised
    ELSE Built(ZipColumns(schema, row, 1, <<>>))

\* lines 229-233: the placeholder column names of a payload without schema
DummyRowDict(row) ==
    IF ~CanLen(row) THEN Raised
    ELSE Built(<< [k |-> T_column1, v |-> IF RowLen(row) > 0 THEN RowAt(row, 1) ELSE JNull],
                  [k |-> T_column2, v |-> IF RowLen(row) > 1 THEN RowAt(row, 2) ELSE JNull] >>)

\* the placeholder names for every positional row, schema or not
row_dict_placeholders(hasSchema, schema, row) ==
    IF row.t = "dict" THEN Built(row.members) ELSE DummyRowDict(row)

\* lines 219-233
row_dict(hasSchema, schema, row) ==
    IF row.t = "dict" THEN Built(row.members)
    ELSE IF hasSchema THEN SchemaRowDict(schema, row)
    ELSE DummyRowDict(row)

\* what `for row in rows` iterates over
CanIterate(rows) == rows.t \in {"list", "dict", "str"}
Iterated(rows) ==
    CASE rows.t = "list" -> rows.items
      [] rows.t = "dict" -> [j \in 1..Len(rows.members) |-> JStr(rows.members[j].k)]
      [] rows.t = "str" -> [j \in 1..Len(rows.s) |-> JStr(<<rows.s[j]>>)]

\* the insert loop left at the first insert_row that returns False
RECURSIVE InsertRowsAborting(_, _, _, _, _, _, _)
InsertRowsAborting(store, hasSchema, schema, rows, i, fault, inserts) ==
    IF i > Len(rows) \/ (inserts # <<>> /\ ~inserts[Len(inserts)].ok)
    THEN [ret |-> TRUE, store |-> store, inserts |-> inserts]
    ELSE IF row_dict(hasSchema, schema, rows[i]).raised
         THEN [ret |-> FALSE, store |-> store, inserts |-> inserts]
    ELSE InsertRowsAborting(
             insert_row(store, row_dict(hasSchema, schema, rows[i]).d,
                        fault = Len(inserts) + 1).store,
             hasSchema, schema, rows, i + 1, fault,
             Append(inserts,
                    [row_dict |-> row_dict(hasSchema, schema, rows[i]).d,
                     ok |-> insert_row(store, row_dict(hasSchema, schema, rows[i]).d,
                                       fault = Len(inserts) + 1).ok]))

\* lines 218-235: the insert loop from row i on.  inserts logs, per row
\* handed to insert_row, the mapping and the result.
RECURSIVE InsertRows(_, _, _, _, _, _, _)
InsertRows(store, hasSchema, schema, rows, i, fault, inserts) ==
    IF i > Len(rows) THEN [ret |-> TRUE, store |-> store, inserts |-> inserts]
    ELSE LET rd == row_dict(hasSchema, schema, rows[i])
         IN  IF rd.raised THEN [ret |-> FALSE, store |-> store, inserts |-> inserts]
             ELSE LET r == insert_row(store, rd.d, fault = Len(inserts) + 1)
                  IN  InsertRows(r.store, hasSchema, schema, rows, i + 1, fault,
                                 Append(inserts, [row_dict |-> rd.d, ok |-> r.ok]))

\* the rows inserted whatever apply_schema returned
handle_payload_unchecked(store, payload, fault) ==
    LET hasSchema == HasKey(payload, T_schema) /\ HasKey(payload, T_data)
        schema == IF hasSchema THEN Get(payload, T_schema) ELSE JNull
        rows == IF hasSchema THEN Get(payload, T_data) ELSE payload
        applied == IF hasSchema THEN apply_schema(store, schema, fault = -1)
                   ELSE [ok |-> TRUE, store |-> store]
    IN  IF ~CanIterate(rows)
        THEN [ret |-> FALSE, store |-> applied.store, inserts |-> <<>>]
        ELSE InsertRows(applied.store, hasSchema, schema, Iterated(rows), 1, fault, <<>>)

\* lines 201-235: the return value, the store afterwards and the inserts
handle_payload(store, payload, fault) ==
    LET hasSchema == HasKey(payload, T_schema) /\ HasKey(payload, T_data)
        schema == IF hasSchema THEN Get(payload, T_schema) ELSE JNull
        rows == IF hasSchema THEN Get(payload, T_data) ELSE payload
        applied == IF hasSchema THEN apply_schema(store, schema, fault = -1)
                   ELSE [ok |-> TRUE, store |-> store]
    IN  IF ~applied.ok \/ ~CanIterate(rows)
        THEN [ret |-> FALSE, store |-> applied.store, inserts |-> <<>>]
        ELSE InsertRows(applied.store, hasSchema, schema, Iterated(rows), 1, fault, <<>>)

\* the payload with the first n of its rows
Truncated(payload, n) ==
    JDict(DictSet(payload.members, T_data,
                  JList(SubSeq(Get(payload, T_data).items, 1, n))))

\* lines 201-235, 265-268: the handling of a payload with schema and data
\* that KeyboardInterrupt leaves: in apply_schema before its commit (cut
\* -1), or after the commit of insert number cut; db_conn.close() discards
\* the statement that was not committed
interrupted_payload(store, payload, cut) ==
    IF cut = -1
    THEN [ret |-> FALSE, store |-> store, inserts |-> <<>>]
    ELSE [ret |-> FALSE,
          store |-> handle_payload(store, Truncated(payload, cut), 0).store,
          inserts |-> handle_payload(store, Truncated(payload, cut), 0).inserts]

(***************************************************************************)
(* The two processes.  The sender is the sync loop of db_sync_client.py,   *)
(* the receiver the accept loop of db_sync_server.py; they share one TLS   *)
(* connection at a time (the receiver serves a connection to its end       *)
(* before it accepts the next, and a connect completes in accept).         *)
(***************************************************************************)
MaxCycles == 2
MaxFaults == 1
MaxStops == 1
IOQuantum == 80
buffer_size == 4096

VARIABLES
    source,           \* the keys of the rows of the source table
    spc,              \* sender: "start", "idle", "extracted", "sending"
    last_sent_id,     \* sender: the cursor in memory
    cursor_file,      \* last_sent_id.pkl: [exists, value]
    db_conn_ok,       \* sender: no statement of db_conn has failed so far
    table_payload,    \* sender: the payload of the cycle
    encoded_message,  \* send_data_over_socket: the bytes to write
    total_sent,       \* send_data_over_socket: how many are written
    client_open,      \* the sender's socket is open
    wire,             \* the bytes written on the connection so far
    rpc,              \* receiver: "accept", "reading", "stopped", "failed"
    received,         \* how many bytes of wire the receiver has read
    full_data,        \* handle_client_data: the bytes accumulated
    bytewise,         \* history: every recv into full_data gave one byte
    store,            \* the target store
    ioq,              \* a send or recv moves a multiple of ioq bytes, or all
    faults,           \* the failures injected so far
    cycles,           \* the cycles the sender's run has started so far
    pre,              \* history: both cursors when the cycle started
    outcome,          \* history: how the last cycle ended
    log,              \* history: the cycles that ended
    handled,          \* history: the payloads the receiver has parsed
    schema_arg,       \* the schema handed to apply_schema called on its own
    calls,            \* the results of those calls
    stops,            \* how often the sender's process was stopped
    sockets,          \* the sockets the sender has connected and not closed
    serving           \* the sockets the receiver has accepted and not closed

vars == <<source, spc, last_sent_id, cursor_file, db_conn_ok, table_payload,
          encoded_message, total_sent, client_open, wire, rpc, received,
          full_data, bytewise, store, ioq, faults, cycles, pre, outcome, log,
          handled, schema_arg, calls, stops, sockets, serving>>

sender_vars == <<spc, last_sent_id, cursor_file, db_conn_ok, table_payload,
                 encoded_message, total_sent, client_open, cycles, pre, outcome,
                 log>>
receiver_vars == <<rpc, received, full_data, bytewise, store, handled>>
other_vars == <<ioq, schema_arg, calls, stops>>
conn_vars == <<sockets, serving>>

NoPayload == [schema |-> <<>>, data |-> <<>>, new_last_sent_id |-> 0]

InitCommon ==
    /\ db_conn_ok = TRUE
    /\ wire = <<>>
    /\ received = 0
    /\ full_data = <<>>
    /\ bytewise = TRUE
    /\ pre = [mem |-> 0, file |-> 0]
    /\ log = <<>>
    /\ handled = <<>>
    /\ calls = <<>>
    /\ stops = 0

\* a fresh installation: no cursor file, an empty target store
Init ==
    /\ InitCommon
    /\ source = {}
    /\ spc = "start"
    /\ last_sent_id = 0
    /\ cursor_file = [exists |-> FALSE, value |-> 0]
    /\ table_payload = NoPayload
    /\ encoded_message = <<>>
    /\ total_sent = 0
    /\ client_open = FALSE
    /\ rpc = "accept"
    /\ store = EmptyStore
    /\ ioq = IOQuantum
    /\ faults = 0
    /\ cycles = 0
    /\ outcome = "none"
    /\ schema_arg = JList(<<>>)
    /\ sockets = 0
    /\ serving = 0

\* the sizes one send or recv call can move when n bytes are ready
Sizes(n) == {k \in 1..n : k = n \/ k % ioq = 0}

\* a load that ignores the file
load_last_sent_id_zero(file) == 0

\* load_last_sent_id: the value of the file, which it creates holding 0
load_last_sent_id(file) == IF file.exists THEN file.value ELSE 0

\* save_last_sent_id
save_last_sent_id(id) == [exists |-> TRUE, value |-> id]

\* lines 220-229: load the cursor, connect to the source store
Start ==
    /\ spc = "start"
    /\ last_sent_id' = load_last_sent_id(cursor_file)
    /\ cursor_file' = save_last_sent_id(load_last_sent_id(cursor_file))
    /\ db_conn_ok' = TRUE
    /\ spc' = "idle"
    /\ UNCHANGED <<source, table_payload, encoded_message, total_sent, client_open,
                   wire, faults, cycles, pre, outcome, log>>
    /\ UNCHANGED receiver_vars
    /\ UNCHANGED other_vars
    /\ UNCHANGED conn_vars

\* the source table gains a row, its key from the sequence.  The sender
\* reads the table in query_table only, so a row inserted while a cycle
\* runs is a row inserted right after it.
AddRow ==
    /\ spc = "idle"
    /\ \E k \in 1..MaxKey :
          /\ \A j \in source : j < k
          /\ source' = source \cup {k}
    /\ UNCHANGED <<wire, faults>>
    /\ UNCHANGED sender_vars
    /\ UNCHANGED receiver_vars
    /\ UNCHANGED other_vars
    /\ UNCHANGED conn_vars

\* every cycle sends, in place of line 235
HasWorkAlways(payload) == TRUE

\* line 235
HasWork(payload) == payload.data # <<>> \/ payload.schema # <<>>

\* a cycle that ended, for the history
Ended(how, payload, written, mem, file) ==
    [outcome |-> how, payload |-> payload, written |-> written,
     before |-> pre, after |-> [mem |-> mem, file |-> file.value]]

\* lines 234-235, 255-258: query_table; with nothing to send the cycle ends
Extract ==
    /\ spc = "idle"
    /\ cycles < MaxCycles
    /\ \E selectFails, catalogFails \in BOOLEAN :
          /\ ~db_conn_ok => selectFails
          /\ (db_conn_ok /\ (selectFails \/ catalogFails)) => faults < MaxFaults
          /\ selectFails => ~catalogFails
          /\ catalogFails => last_sent_id = 0
          /\ LET payload == query_table(source, last_sent_id, selectFails, catalogFails)
                 how == IF HasWork(payload) THEN "running"
                        ELSE IF selectFails THEN "extract_failed"
                        ELSE "skipped"
                 now == [mem |-> last_sent_id, file |-> cursor_file.value]
             IN  /\ table_payload' = payload
                 /\ spc' = IF HasWork(payload) THEN "extracted" ELSE "idle"
                 /\ outcome' = how
                 /\ log' = IF HasWork(payload) THEN log
                           ELSE Append(log, [outcome |-> how, payload |-> payload,
                                             written |-> 0, before |-> now,
                                             after |-> now])
                 /\ pre' = now
          /\ db_conn_ok' = (db_conn_ok /\ ~selectFails /\ ~catalogFails)
          /\ faults' = IF db_conn_ok /\ (selectFails \/ catalogFails)
                       THEN faults + 1 ELSE faults
    /\ cycles' = cycles + 1
    /\ UNCHANGED <<source, last_sent_id, cursor_file, encoded_message, total_sent,
                   client_open, wire>>
    /\ UNCHANGED receiver_vars
    /\ UNCHANGED other_vars
    /\ UNCHANGED conn_vars

\* lines 237-238, 172-175: the connect completes in the receiver's accept
\* (line 257); send_data_over_socket encodes the payload
Connect ==
    /\ spc = "extracted"
    /\ rpc = "accept"
    /\ spc' = "sending"
    /\ client_open' = TRUE
    /\ wire' = <<>>
    /\ encoded_message' = encode(table_payload)
    /\ total_sent' = 0
    /\ rpc' = "reading"
    /\ received' = 0
    /\ full_data' = <<>>
    /\ bytewise' = TRUE
    /\ UNCHANGED <<source, last_sent_id, cursor_file, db_conn_ok, table_payload, store,
                   faults, cycles, pre, outcome, log, handled>>
    /\ UNCHANGED other_vars
    /\ sockets' = sockets + 1
    /\ serving' = serving + 1

\* db_sync_server.py lines 265-273: the receiver's process has ended
ReceiverEnded == rpc \in {"stopped", "failed"}

\* a failed connect that takes the rows for sent
ConnectFailAdvancing ==
    /\ spc = "extracted"
    /\ \/ ReceiverEnded /\ faults' = faults
       \/ faults < MaxFaults /\ faults' = faults + 1
    /\ spc' = "idle"
    /\ outcome' = "connect_failed"
    /\ last_sent_id' = table_payload.new_last_sent_id
    /\ cursor_file' = save_last_sent_id(table_payload.new_last_sent_id)
    /\ log' = Append(log, Ended("connect_failed", table_payload, 0,
                                last_sent_id', cursor_file'))
    /\ UNCHANGED <<source, db_conn_ok, table_payload, encoded_message, total_sent,
                   client_open, wire, cycles, pre>>
    /\ UNCHANGED receiver_vars
    /\ UNCHANGED other_vars
    /\ UNCHANGED conn_vars

\* lines 53-55, 238, 258: connect_to_tcp_server returns None.  With the
\* receiver's process ended this is no injected failure.
ConnectFail ==
    /\ spc = "extracted"
    /\ \/ ReceiverEnded /\ faults' = faults
       \/ faults < MaxFaults /\ faults' = faults + 1
    /\ spc' = "idle"
    /\ outcome' = "connect_failed"
    /\ log' = Append(log, Ended("connect_failed", table_payload, 0, last_sent_id,
                                cursor_file))
    /\ UNCHANGED <<source, last_sent_id, cursor_file, db_conn_ok, table_payload,
                   encoded_message, total_sent, client_open, wire, cycles, pre>>
    /\ UNCHANGED receiver_vars
    /\ UNCHANGED other_vars
    /\ UNCHANGED conn_vars

\* every send from the first byte, in place of line 177
UnsentFromStart(message, sent) == message

\* line 177: encoded_message[total_sent:]
Unsent(message, sent) == SubSeq(message, sent + 1, Len(message))

\* lines 176-180: one client_socket.send that writes n bytes
Send ==
    /\ spc = "sending"
    /\ total_sent < Len(encoded_message)
    /\ \E n \in Sizes(Len(encoded_message) - total_sent) :
          /\ wire' = wire \o SubSeq(Unsent(encoded_message, total_sent), 1, n)
          /\ total_sent' = total_sent + n
    /\ UNCHANGED <<source, spc, last_sent_id, cursor_file, db_conn_ok, table_payload,
                   encoded_message, client_open, faults, cycles, pre, outcome, log>>
    /\ UNCHANGED receiver_vars
    /\ UNCHANGED other_vars
    /\ UNCHANGED conn_vars

\* a failed write that takes the rows for sent
SendFailAdvancing ==
    /\ spc = "sending"
    /\ total_sent < Len(encoded_message)
    /\ \/ (rpc = "accept" \/ ReceiverEnded) /\ faults' = faults
       \/ faults < MaxFaults /\ faults' = faults + 1
    /\ spc' = "idle"
    /\ client_open' = FALSE
    /\ outcome' = "write_failed"
    /\ last_sent_id' = table_payload.new_last_sent_id
    /\ cursor_file' = save_last_sent_id(table_payload.new_last_sent_id)
    /\ log' = Append(log, Ended("write_failed", table_payload, total_sent,
                                last_sent_id', cursor_file'))
    /\ UNCHANGED <<source, db_conn_ok, table_payload, encoded_message, total_sent, wire,
                   cycles, pre>>
    /\ UNCHANGED receiver_vars
    /\ UNCHANGED other_vars
    /\ sockets' = sockets - 1
    /\ UNCHANGED serving

\* lines 178-179, 183-185, 247-250, 258: a send raises or returns 0.  With
\* the receiver's end closed this is no injected failure.
SendFail ==
    /\ spc = "sending"
    /\ total_sent < Len(encoded_message)
    /\ \/ (rpc = "accept" \/ ReceiverEnded) /\ faults' = faults
       \/ faults < MaxFaults /\ faults' = faults + 1
    /\ spc' = "idle"
    /\ client_open' = FALSE
    /\ outcome' = "write_failed"
    /\ log' = Append(log, Ended("write_failed", table_payload, total_sent,
                                last_sent_id, cursor_file))
    /\ UNCHANGED <<source, last_sent_id, cursor_file, db_conn_ok, table_payload,
                   encoded_message, total_sent, wire, cycles, pre>>
    /\ UNCHANGED receiver_vars
    /\ UNCHANGED other_vars
    /\ sockets' = sockets - 1
    /\ UNCHANGED serving

\* lines 243-245: the cursors after a payload was written in full
Committed(payload, id, file) ==
    IF payload.data # <<>>
    THEN [mem |-> payload.new_last_sent_id,
          file |-> save_last_sent_id(payload.new_last_sent_id)]
    ELSE [mem |-> id, file |-> file]

\* a cycle that ends without line 249, its socket left open
CommitLeavingOpen ==
    /\ spc = "sending"
    /\ total_sent >= Len(encoded_message)
    /\ LET now == Committed(table_payload, last_sent_id, cursor_file)
       IN  /\ last_sent_id' = now.mem
           /\ cursor_file' = now.file
           /\ log' = Append(log, Ended("committed", table_payload, total_sent,
                                       now.mem, now.file))
    /\ client_open' = TRUE
    /\ spc' = "idle"
    /\ outcome' = "committed"
    /\ UNCHANGED <<source, db_conn_ok, table_payload, encoded_message, total_sent, wire,
                   faults, cycles, pre>>
    /\ UNCHANGED receiver_vars
    /\ UNCHANGED other_vars
    /\ UNCHANGED conn_vars

\* lines 181-182, 240-250, 258: the loop of send_data_over_socket is over
Commit ==
    /\ spc = "sending"
    /\ total_sent >= Len(encoded_message)
    /\ LET now == Committed(table_payload, last_sent_id, cursor_file)
       IN  /\ last_sent_id' = now.mem
           /\ cursor_file' = now.file
           /\ log' = Append(log, Ended("committed", table_payload, total_sent,
                                       now.mem, now.file))
    /\ client_open' = FALSE
    /\ spc' = "idle"
    /\ outcome' = "committed"
    /\ UNCHANGED <<source, db_conn_ok, table_payload, encoded_message, total_sent, wire,
                   faults, cycles, pre>>
    /\ UNCHANGED receiver_vars
    /\ UNCHANGED other_vars
    /\ sockets' = sockets - 1
    /\ UNCHANGED serving

\* the statement failures a frame can meet (see handle_payload), clean
\* its handling without one: none, or while failures are left to inject,
\* apply_schema or one of the insert_row calls
FrameFaults(payload, clean) ==
    IF faults < MaxFaults
    THEN (IF HasKey(payload, T_schema) /\ HasKey(payload, T_data) THEN {-1} ELSE {})
            \cup (0..Len(clean.inserts))
    ELSE {0}

\* lines 201-235: the buffer parsed to payload after the recv of k bytes;
\* done is what handle_payload made of it
HandleFrame(k, payload, fault, done) ==
    /\ faults' = IF fault # 0 THEN faults + 1 ELSE faults
    /\ full_data' = <<>>
    /\ bytewise' = TRUE
    /\ store' = done.store
    /\ rpc' = IF done.ret THEN "reading" ELSE "accept"
    /\ serving' = IF done.ret THEN serving ELSE serving - 1
    /\ handled' = Append(handled,
                    [payload |-> payload,
                     at |-> received + k,
                     bytewise |-> bytewise /\ k = 1,
                     fault |-> fault,
                     interrupted |-> FALSE,
                     ret |-> done.ret,
                     inserts |-> done.inserts,
                     rows_before |-> Len(store.rows)])

\* lines 194-201, 236-238: the buffer data after the recv of k bytes, and
\* what json.loads makes of it
RecvChunk(k, data, parse) ==
    /\ received' = received + k
    /\ IF ~parse.ok
       THEN /\ full_data' = data
            /\ bytewise' = (bytewise /\ k = 1)
            /\ UNCHANGED <<rpc, store, handled, faults, serving>>
       ELSE \E fault \in FrameFaults(parse.v, handle_payload(store, parse.v, 0)) :
               HandleFrame(k, parse.v, fault, handle_payload(store, parse.v, fault))

\* the buffer after a recv of k bytes
Buffer(k) == full_data \o SubSeq(wire, received + 1, received + k)

\* lines 190-241: one recv of k bytes; a buffer that parses is handled
Recv ==
    /\ rpc = "reading"
    /\ received < Len(wire)
    /\ \E k \in Sizes(Min(Len(wire) - received, buffer_size)) :
          RecvChunk(k, Buffer(k), loads(Buffer(k)))
    /\ UNCHANGED <<source, wire>>
    /\ UNCHANGED sender_vars
    /\ UNCHANGED other_vars
    /\ UNCHANGED sockets

\* a row is made of the bytes left in the buffer at the end of the stream
RecvEOFApplying ==
    /\ rpc = "reading"
    /\ received = Len(wire)
    /\ ~client_open
    /\ rpc' = "accept"
    /\ full_data' = <<>>
    /\ bytewise' = TRUE
    /\ UNCHANGED <<source, wire, faults, received, handled>>
    /\ store' = IF full_data = <<>> THEN store
                ELSE [store EXCEPT !.rows = Append(@, RowOf(1))]
    /\ UNCHANGED sender_vars
    /\ UNCHANGED other_vars
    /\ serving' = serving - 1
    /\ UNCHANGED sockets

\* the end of a connection without line 263, its socket left open
RecvEOFLeavingOpen ==
    /\ rpc = "reading"
    /\ received = Len(wire)
    /\ ~client_open
    /\ rpc' = "accept"
    /\ full_data' = <<>>
    /\ bytewise' = TRUE
    /\ UNCHANGED <<source, wire, faults, received, store, handled>>
    /\ UNCHANGED sender_vars
    /\ UNCHANGED other_vars
    /\ UNCHANGED conn_vars

\* lines 190-193, 261-263: recv returns b"" after the sender closed
RecvEOF ==
    /\ rpc = "reading"
    /\ received = Len(wire)
    /\ ~client_open
    /\ rpc' = "accept"
    /\ full_data' = <<>>
    /\ bytewise' = TRUE
    /\ UNCHANGED <<source, wire, faults, received, store, handled>>
    /\ UNCHANGED sender_vars
    /\ UNCHANGED other_vars
    /\ serving' = serving - 1
    /\ UNCHANGED sockets

\* lines 242-244, 261-263: recv raises
RecvError ==
    /\ rpc = "reading"
    /\ faults < MaxFaults
    /\ faults' = faults + 1
    /\ rpc' = "accept"
    /\ full_data' = <<>>
    /\ bytewise' = TRUE
    /\ UNCHANGED <<source, wire, received, store, handled>>
    /\ UNCHANGED sender_vars
    /\ UNCHANGED other_vars
    /\ serving' = serving - 1
    /\ UNCHANGED sockets

\* lines 259-261, 265-268: the sender's process ends, on KeyboardInterrupt
\* or killed.  The interrupt is raised wherever the main thread is: between
\* two cycles (the sleep of line 258), after query_table, in or after a send
\* of send_data_over_socket, before line 244.  No handler below line 259
\* catches it (they catch Exception), so client.close() is not called and
\* the socket is closed with the process.
Stop ==
    /\ spc \in {"idle", "extracted", "sending"}
    /\ stops < MaxStops
    /\ stops' = stops + 1
    /\ spc' = "stopped"
    /\ client_open' = FALSE
    /\ outcome' = IF spc = "idle" THEN outcome ELSE "stopped"
    /\ log' = IF spc = "idle" THEN log
              ELSE Append(log, Ended("stopped", table_payload,
                                     IF spc = "sending" THEN total_sent ELSE 0,
                                     last_sent_id, cursor_file))
    /\ UNCHANGED <<source, last_sent_id, cursor_file, db_conn_ok, table_payload,
                   encoded_message, total_sent, wire, faults, cycles, pre>>
    /\ UNCHANGED receiver_vars
    /\ UNCHANGED <<ioq, schema_arg, calls>>
    /\ sockets' = 0
    /\ UNCHANGED serving

\* the program is run again: nothing of the last run is left but the
\* cursor file
Restart ==
    /\ spc = "stopped"
    /\ spc' = "start"
    /\ last_sent_id' = 0
    /\ table_payload' = NoPayload
    /\ encoded_message' = <<>>
    /\ total_sent' = 0
    /\ cycles' = 0
    /\ UNCHANGED <<source, cursor_file, db_conn_ok, client_open, wire, faults, pre,
                   outcome, log>>
    /\ UNCHANGED receiver_vars
    /\ UNCHANGED other_vars
    /\ UNCHANGED conn_vars

Next ==
    \/ Start
    \/ AddRow
    \/ Extract
    \/ Connect
    \/ ConnectFail
    \/ Send
    \/ SendFail
    \/ Commit
    \/ Recv
    \/ RecvEOF
    \/ RecvError

Spec == Init /\ [][Next]_vars

\* lines 257, 269-273: server.accept() raises, on a connection whose TLS
\* handshake fails (the listening socket is the wrapped one, accept does
\* the handshake), from whatever peer; the handler of the accept loop
\* closes the listening socket and db_conn, and the program ends
AcceptFail ==
    /\ rpc = "accept"
    /\ faults < MaxFaults
    /\ faults' = faults + 1
    /\ rpc' = "failed"
    /\ UNCHANGED <<source, wire, received, full_data, bytewise, store, handled>>
    /\ UNCHANGED sender_vars
    /\ UNCHANGED other_vars
    /\ UNCHANGED conn_vars

\* lines 265-268: KeyboardInterrupt in accept or in recv
Shutdown ==
    /\ rpc \in {"accept", "reading"}
    /\ rpc' = "stopped"
    /\ full_data' = <<>>
    /\ bytewise' = TRUE
    /\ UNCHANGED <<source, wire, faults, received, store, handled>>
    /\ UNCHANGED sender_vars
    /\ UNCHANGED other_vars
    /\ serving' = 0
    /\ UNCHANGED sockets

\* the buffer data parsed to a payload after the recv of k bytes, and
\* KeyboardInterrupt before line 235: no handler of handle_client_data,
\* apply_schema or insert_row catches it (they catch Exception and Error)
InterruptChunk(k, data, parse) ==
    /\ parse.ok
    /\ HasKey(parse.v, T_schema)
    /\ HasKey(parse.v, T_data)
    /\ Get(parse.v, T_data).t = "list"
    /\ \E cut \in (-1)..(Len(Get(parse.v, T_data).items) - 1) :
          /\ store' = interrupted_payload(store, parse.v, cut).store
          /\ handled' = Append(handled,
                          [payload |-> parse.v,
                           at |-> received + k,
                           bytewise |-> bytewise /\ k = 1,
                           fault |-> 0,
                           interrupted |-> TRUE,
                           ret |-> FALSE,
                           inserts |-> interrupted_payload(store, parse.v, cut).inserts,
                           rows_before |-> Len(store.rows)])
    /\ received' = received + k
    /\ full_data' = <<>>
    /\ bytewise' = TRUE
    /\ rpc' = "stopped"

\* lines 201-235, 265-268: the shutdown while a frame is applied
ShutdownApplying ==
    /\ rpc = "reading"
    /\ received < Len(wire)
    /\ \E k \in Sizes(Min(Len(wire) - received, buffer_size)) :
          InterruptChunk(k, Buffer(k), loads(Buffer(k)))
    /\ UNCHANGED <<source, wire, faults>>
    /\ UNCHANGED sender_vars
    /\ UNCHANGED other_vars
    /\ serving' = 0
    /\ UNCHANGED sockets

\* the receiver with the failures of accept and the shutdown
NextServer == Next \/ AcceptFail \/ Shutdown \/ ShutdownApplying

SpecServer == Init /\ [][NextServer]_vars

\* the sender run, stopped and run again
NextRuns == Next \/ Stop \/ Restart

SpecRuns == Init /\ [][NextRuns]_vars

(***************************************************************************)
(* The frame on a connection, for payloads of any scalar values:           *)
(* send_data_over_socket writes the frame in sends of any sizes and        *)
(* handle_client_data reads it in recvs of any sizes.  Nothing fails.      *)
(***************************************************************************)
\* the values of a row: null, booleans, integers, text
CodecValues ==
    {JNull, JBool(TRUE), JBool(FALSE), JInt(0), JInt(-12), JInt(305),
     JStr(<<>>), JStr(<<"\"", "\\">>), JStr(<<"}", "]">>), JStr(<<",", " ", "{">>)}

CodecRows == {<<v>> : v \in CodecValues} \cup {<<JInt(7), JStr(<<"a">>)>>}

CodecSchemas == {<<>>, <<[name |-> T_id, type |-> <<"I">>]>>}

\* no row, one row, two rows of different lengths
CodecData ==
    {<<>>} \cup {<<row>> : row \in CodecRows} \cup {<< <<JInt(7), JStr(<<"a">>)>>, <<JNull>> >>}

\* the payloads line 235 lets through
CodecPayloads ==
    {p \in [schema : CodecSchemas, data : CodecData, new_last_sent_id : {0}] :
        /\ HasWork(p)
        /\ p.schema # <<>> => Len(p.data) <= 1 /\ \A i \in 1..Len(p.data) : Len(p.data[i]) = 2}

\* the sender in send_data_over_socket (line 175), the receiver in its
\* first recv (line 190)
InitCodec ==
    /\ InitCommon
    /\ source = {}
    /\ spc = "sending"
    /\ last_sent_id = 0
    /\ cursor_file = [exists |-> TRUE, value |-> 0]
    /\ table_payload \in CodecPayloads
    /\ encoded_message = encode(table_payload)
    /\ total_sent = 0
    /\ client_open = TRUE
    /\ rpc = "reading"
    /\ store = EmptyStore
    /\ ioq = 1
    /\ faults = MaxFaults
    /\ cycles = MaxCycles
    /\ outcome = "running"
    /\ schema_arg = JList(<<>>)
    /\ sockets = 1
    /\ serving = 1

NextCodec ==
    \/ Send
    \/ Commit
    \/ Recv
    \/ RecvEOF

SpecCodec == InitCodec /\ [][NextCodec]_vars

(***************************************************************************)
(* Two frames on one connection: the peer of the receiver writes a frame   *)
(* and after it a second one, and closes.  The receiver calls              *)
(* handle_client_data again after a frame was handled (line 261).  A send  *)
(* or recv moves a multiple of StreamQuantum bytes, or of the length of    *)
(* the first frame, or all there is.                                       *)
(***************************************************************************)
StreamQuantum == 8

StreamFirst == {p \in CodecPayloads : p.schema # <<>> /\ p.data # <<>>}
StreamSecond == {p \in CodecPayloads : Len(p.data) = 1 /\ Len(p.data[1]) = 2}

InitStream ==
    /\ InitCommon
    /\ source = {}
    /\ spc = "sending"
    /\ last_sent_id = 0
    /\ cursor_file = [exists |-> TRUE, value |-> 0]
    /\ table_payload \in StreamSecond
    /\ \E first \in StreamFirst :
          /\ encoded_message = encode(first) \o encode(table_payload)
          /\ ioq \in {StreamQuantum, Len(encode(first))}
    /\ total_sent = 0
    /\ client_open = TRUE
    /\ rpc = "reading"
    /\ store = EmptyStore
    /\ faults = MaxFaults
    /\ cycles = MaxCycles
    /\ outcome = "running"
    /\ schema_arg = JList(<<>>)
    /\ sockets = 1
    /\ serving = 1

SpecStream == InitStream /\ [][NextCodec]_vars

(***************************************************************************)
(* apply_schema called on its own, on a target store without the table.    *)
(***************************************************************************)
MaxColumns == 3
MaxCalls == 2

RECURSIVE SeqsUpTo(_, _)
SeqsUpTo(S, n) ==
    IF n = 0 THEN {<<>>}
    ELSE SeqsUpTo(S, n - 1)
            \cup {Append(q, x) : q \in {r \in SeqsUpTo(S, n - 1) : Len(r) = n - 1}, x \in S}

ColumnNames == {T_id, T_name, <<"v">>}
ColumnTypes == {<<"I", "N", "T", "E", "G", "E", "R">>, <<"T", "E", "X", "T">>}

\* the schemas of tables: up to MaxColumns columns, no name twice
Schemas ==
    {JList([i \in 1..Len(q) |->
               JDict(<< [k |-> T_name, v |-> JStr(q[i][1])],
                        [k |-> T_type, v |-> JStr(q[i][2])] >>)]) :
        q \in {r \in SeqsUpTo(ColumnNames \X ColumnTypes, MaxColumns) :
                  \A i, j \in 1..Len(r) : i # j => r[i][1] # r[j][1]}}

InitSchema ==
    /\ InitCommon
    /\ source = {}
    /\ spc = "start"
    /\ last_sent_id = 0
    /\ cursor_file = [exists |-> FALSE, value |-> 0]
    /\ table_payload = NoPayload
    /\ encoded_message = <<>>
    /\ total_sent = 0
    /\ client_open = FALSE
    /\ rpc = "accept"
    /\ store = EmptyStore
    /\ ioq = IOQuantum
    /\ faults = 0
    /\ cycles = 0
    /\ outcome = "none"
    /\ schema_arg \in Schemas
    /\ sockets = 0
    /\ serving = 0

\* apply_schema(db_connection, table_name, schema_arg)
ApplySchema ==
    /\ Len(calls) < MaxCalls
    /\ LET applied == apply_schema(store, schema_arg, FALSE)
       IN  /\ store' = applied.store
           /\ calls' = Append(calls, applied.ok)
    /\ UNCHANGED <<source, wire, faults, rpc, received, full_data, bytewise, handled,
                   ioq, schema_arg, stops>>
    /\ UNCHANGED sender_vars
    /\ UNCHANGED conn_vars

NextSchema == ApplySchema

SpecSchema == InitSchema /\ [][NextSchema]_vars

(***************************************************************************)
(* apply_schema called on its own, on a target store that has the table,   *)
(* with or without a row, for the schema of a table or any other value.    *)
(***************************************************************************)
\* the table created from schema, and a row inserted into it
CreatedStore(schema) == apply_schema(EmptyStore, schema, FALSE).store
FilledStore(schema) ==
    insert_row(CreatedStore(schema),
               <<[k |-> Get(schema.items[1], T_name).s, v |-> JInt(1)]>>,
               FALSE).store

ExistingStores ==
    UNION {{CreatedStore(schema), FilledStore(schema)} :
              schema \in {sc \in Schemas : sc.items # <<>>}}

\* what a frame can hold under 'schema'
AnySchemas == Schemas \cup {JNull, JStr(<<"x">>), JList(<<JInt(1)>>), JDict(<<>>)}

InitExisting ==
    /\ InitCommon
    /\ source = {}
    /\ spc = "start"
    /\ last_sent_id = 0
    /\ cursor_file = [exists |-> FALSE, value |-> 0]
    /\ table_payload = NoPayload
    /\ encoded_message = <<>>
    /\ total_sent = 0
    /\ client_open = FALSE
    /\ rpc = "accept"
    /\ store \in ExistingStores
    /\ ioq = IOQuantum
    /\ faults = 0
    /\ cycles = 0
    /\ outcome = "none"
    /\ schema_arg \in AnySchemas
    /\ sockets = 0
    /\ serving = 0

SpecExisting == InitExisting /\ [][NextSchema]_vars

(***************************************************************************)
(* query_table called for any table and any cursor, without a failure.     *)
(***************************************************************************)
InitQuery ==
    /\ InitCommon
    /\ source \in SUBSET (1..MaxKey)
    /\ spc = "idle"
    /\ last_sent_id \in 0..MaxKey
    /\ cursor_file = [exists |-> TRUE, value |-> last_sent_id]
    /\ table_payload = NoPayload
    /\ encoded_message = <<>>
    /\ total_sent = 0
    /\ client_open = FALSE
    /\ rpc = "accept"
    /\ store = EmptyStore
    /\ ioq = IOQuantum
    /\ faults = MaxFaults
    /\ cycles = 0
    /\ outcome = "none"
    /\ schema_arg = JList(<<>>)
    /\ sockets = 0
    /\ serving = 0

NextQuery == Extract

SpecQuery == InitQuery /\ [][NextQuery]_vars

(***************************************************************************)
(* db_sync_client.py run as a program, statement by statement as Python    *)
(* executes the module: the if of line 188 holds lines 189-193 only; the   *)
(* def of line 195, at column 0, ends it, and its body runs to line 272.   *)
(* The program starts for any source table and any cursor file.            *)
(***************************************************************************)
InitProgram ==
    /\ InitCommon
    /\ source \in SUBSET (1..MaxKey)
    /\ spc = "start"
    /\ last_sent_id = 0
    /\ cursor_file \in {[exists |-> FALSE, value |-> 0]}
                          \cup {[exists |-> TRUE, value |-> v] : v \in 0..MaxKey}
    /\ table_payload = NoPayload
    /\ encoded_message = <<>>
    /\ total_sent = 0
    /\ client_open = FALSE
    /\ rpc = "accept"
    /\ store = EmptyStore
    /\ ioq = IOQuantum
    /\ faults = 0
    /\ cycles = 0
    /\ outcome = "none"
    /\ schema_arg = JList(<<>>)
    /\ sockets = 0
    /\ serving = 0

\* lines 188-193: the body of `if __name__ == "__main__":`, two imports and
\* the name of the cursor file
ProgramMain ==
    /\ spc = "start"
    /\ spc' = "main"
    /\ UNCHANGED <<source, last_sent_id, cursor_file, db_conn_ok, table_payload,
                   encoded_message, total_sent, client_open, wire, faults, cycles,
                   pre, outcome, log>>
    /\ UNCHANGED receiver_vars
    /\ UNCHANGED other_vars
    /\ UNCHANGED conn_vars

\* lines 195-272: the def statement binds load_last_sent_id; nothing calls
\* it (its two other mentions, lines 211-272 with the sync loop, are in its
\* own body after the returns of lines 200, 206 and 209), and the module
\* ends
ProgramEnd ==
    /\ spc = "main"
    /\ spc' = "exited"
    /\ UNCHANGED <<source, last_sent_id, cursor_file, db_conn_ok, table_payload,
                   encoded_message, total_sent, client_open, wire, faults, cycles,
                   pre, outcome, log>>
    /\ UNCHANGED receiver_vars
    /\ UNCHANGED other_vars
    /\ UNCHANGED conn_vars

NextProgram == ProgramMain \/ ProgramEnd

\* the interpreter runs the statements of the module one after the other
SpecProgram == InitProgram /\ [][NextProgram]_vars /\ WF_vars(NextProgram)

(***************************************************************************)
(* Helpers of the properties.                                              *)
(***************************************************************************)
Range(q) == {q[i] : i \in 1..Len(q)}

\* the key of a row as extracted, and of a row as stored in the target
KeyOf(row) == row[1].n

\* the keys of the rows of the payloads written in full so far
TransmittedKeys ==
    UNION {{KeyOf(r) : r \in Range(log[i].payload.data)} :
              i \in {j \in 1..Len(log) : log[j].outcome = "committed"}}

LargestTransmitted == IF TransmittedKeys = {} THEN 0 ELSE SetMax(TransmittedKeys)

\* how often the source row of key k is in the target table
CountStored(k) == Cardinality({i \in 1..Len(store.rows) : store.rows[i] = RowOf(k)})

FailedOutcomes == {"extract_failed", "connect_failed", "write_failed"}

\* the cycle that just ended has been handled to its end by the receiver
ReceiverDone == rpc = "accept" /\ spc = "idle"

\* C1: the persisted cursor never decreases, and after every successful
\* cycle it is the largest primary key among all rows transmitted so far.
C1_CursorMonotone ==
    [][/\ cursor_file'.value >= cursor_file.value
       /\ outcome' = "committed" => cursor_file'.value = LargestTransmitted']_vars

C1_Witness ==
    /\ outcome = "committed"
    /\ Len(log) = 2
    /\ log[1].outcome = "committed" /\ log[1].payload.data # <<>>
    /\ cursor_file.value > log[1].after.file

\* C2: a cycle that failed at extraction, at connecting or while writing
\* leaves the cursor in memory and the persisted cursor as they were when
\* the cycle began.
C2_NoAdvanceOnFailure ==
    /\ outcome \in FailedOutcomes =>
          last_sent_id = pre.mem /\ cursor_file.value = pre.file
    /\ \A i \in 1..Len(log) :
          log[i].outcome \in FailedOutcomes => log[i].after = log[i].before

C2_Witness ==
    /\ outcome = "write_failed"
    /\ table_payload.data # <<>>
    /\ total_sent > 0
    /\ \E k \in source : k > cursor_file.value

\* C3: every source row whose key is at most the persisted cursor is in the
\* target, or the receiver is still handling the connection it came on.
C3_AtLeastOnce ==
    \A k \in source :
        k <= cursor_file.value => CountStored(k) >= 1 \/ rpc = "reading"

\* C4: with cursor 3 and the target table created, once the source has
\* gained the row of key 4, a cycle and the receiver's handling of its frame
\* send no schema, insert exactly that row with its values, and persist 4.
IncrementalScenario ==
    /\ faults = 0
    /\ ReceiverDone
    /\ outcome = "committed"
    /\ pre = [mem |-> 3, file |-> 3]
    /\ table_payload.data = <<RowOf(4)>>
    /\ Len(handled) >= 1
    /\ handled[Len(handled)].payload = send_payload(table_payload)
    /\ handled[Len(handled)].rows_before >= 1

C4_IncrementalSync ==
    IncrementalScenario =>
        /\ table_payload.schema = <<>>
        /\ cursor_file = [exists |-> TRUE, value |-> 4]
        /\ Len(store.rows) = handled[Len(handled)].rows_before + 1
        /\ store.rows[Len(store.rows)] = RowOf(4)

\* C5: from no cursor file, source rows 1..3 with the columns (id, name) and
\* no target table, one cycle and the receiver's handling of its frame send
\* the schema [id, name], create the table, insert the 3 rows with their
\* values and persist cursor 3.
FirstSyncScenario ==
    /\ faults = 0
    /\ ReceiverDone
    /\ cycles = 1
    /\ outcome = "committed"
    /\ table_payload.data = <<RowOf(1), RowOf(2), RowOf(3)>>
    /\ Len(handled) = 1

SentSchema ==
    << [name |-> T_id, type |-> <<"I", "N", "T", "E", "G", "E", "R">>],
       [name |-> T_name, type |-> <<"T", "E", "X", "T">>] >>

C5_FirstSync ==
    FirstSyncScenario =>
        /\ table_payload.schema = SentSchema
        /\ wire = encode(table_payload)
        /\ handled[1].payload = send_payload(table_payload)
        /\ store.tables = {[name |-> table_name, cols |-> SentSchema]}
        /\ store.rows = <<RowOf(1), RowOf(2), RowOf(3)>>
        /\ cursor_file = [exists |-> TRUE, value |-> 3]
        /\ last_sent_id = 3

C5_Witness == FirstSyncScenario

\* C6: a cycle that finds no row above the cursor and has no schema to
\* send opens no connection, writes nothing and leaves both cursors alone;
\* and no frame with an empty schema and no rows is ever put on a
\* connection.
IdleCycle ==
    /\ spc = "idle"
    /\ cycles' = cycles + 1
    /\ last_sent_id # 0
    /\ ~\E k \in source : k > last_sent_id

C6_IdleCycleSkipped ==
    [][/\ IdleCycle =>
             /\ spc' = "idle"
             /\ client_open' = FALSE
             /\ wire' = wire
             /\ rpc' = rpc
             /\ last_sent_id' = last_sent_id
             /\ cursor_file' = cursor_file
       /\ spc' = "sending" =>
             /\ encoded_message' # encode(NoPayload)
             /\ HasWork(table_payload')]_vars

C6_Witness ==
    /\ outcome = "skipped"
    /\ cycles = 2
    /\ last_sent_id > 0
    /\ source # {}
    /\ log[1].outcome = "committed"

\* C7: the bytes written, whatever the sizes of the sends, are a prefix of
\* the encoding of the frame and all of it once the write has returned; the
\* receiver, whatever the sizes of its recvs, takes the buffer for complete
\* exactly when the last byte of the encoding has arrived, and the payload
\* it then decodes is the frame.
C7_FrameRoundTrip ==
    LET message == encode(table_payload)
    IN  /\ total_sent <= Len(message)
        /\ wire = SubSeq(message, 1, total_sent)
        /\ outcome = "committed" => wire = message
        /\ Len(handled) <= 1
        /\ received < Len(message) => handled = <<>>
        /\ received = Len(message) => Len(handled) = 1
        /\ handled # <<>> =>
              /\ handled[1].at = Len(message)
              /\ handled[1].payload = send_payload(table_payload)
              /\ Get(handled[1].payload, T_schema) =
                    JList([i \in 1..Len(table_payload.schema) |->
                             JDict(<< [k |-> T_name,
                                       v |-> JStr(table_payload.schema[i].name)],
                                      [k |-> T_type,
                                       v |-> JStr(table_payload.schema[i].type)] >>)])
              /\ Get(handled[1].payload, T_data) =
                    JList([i \in 1..Len(table_payload.data) |->
                             JList(table_payload.data[i])])

\* a frame with a schema and a row, read one byte at a time and written
\* in full
C7_Witness ==
    /\ Len(handled) = 1
    /\ handled[1].bytewise
    /\ table_payload.schema # <<>>
    /\ table_payload.data # <<>>
    /\ outcome = "committed"

\* C8: apply_schema called twice with the same schema on a store without
\* the table reports success both times and leaves exactly one table, with
\* the columns of the schema.
C8_ApplySchemaTwice ==
    Len(calls) >= 2 =>
        /\ calls[1]
        /\ calls[2]
        /\ store.tables = {[name |-> table_name, cols |-> ColumnsOf(schema_arg)]}
        /\ store.rows = <<>>

C8_Witness ==
    /\ Len(calls) = 2
    /\ calls[2]
    /\ Len(schema_arg.items) = 2
    /\ TableExists(store)

\* the data rows of a handled payload that has schema and data
DataOf(h) == Get(h.payload, T_data).items

\* the positions of the inserts of h that succeeded
Succeeded(h) == {i \in 1..Len(h.inserts) : h.inserts[i].ok}

\* C9: the rows a frame adds to the target are its rows in the order of
\* the frame, which is ascending in the primary key.
C9_OrderPreserved ==
    \A n \in 1..Len(handled) :
        LET h == handled[n]
        IN  /\ \A i, j \in 1..Len(DataOf(h)) :
                  i < j => KeyOf(DataOf(h)[i].items) < KeyOf(DataOf(h)[j].items)
            /\ Len(h.inserts) <= Len(DataOf(h))
            /\ \A i \in Succeeded(h) :
                  LET at == h.rows_before + Cardinality({j \in Succeeded(h) : j <= i})
                  IN  /\ at <= Len(store.rows)
                      /\ store.rows[at] = DataOf(h)[i].items

C9_Witness ==
    \E n \in 1..Len(handled) :
        /\ Cardinality(Succeeded(handled[n])) >= 3
        /\ Len(store.rows) >= 3

\* cycle i failed in the write with part of the frame written, cycle i + 1
\* wrote a frame in full, and the receiver has handled what it got
PartialWriteRetried(i) ==
    /\ i + 1 <= Len(log)
    /\ log[i].outcome = "write_failed"
    /\ log[i].payload.data # <<>>
    /\ log[i].written > 0
    /\ log[i + 1].outcome = "committed"
    /\ ReceiverDone
    /\ Len(log) = i + 1

\* C10 as stated: after a write that failed part-way and its retry, the
\* cursor stayed, the same rows were sent again, and the target holds the
\* rows in duplicate.
C10_DuplicatesAfterPartialWrite ==
    \A i \in 1..Len(log) :
        PartialWriteRetried(i) =>
            /\ log[i].after = log[i].before
            /\ SubSeq(log[i + 1].payload.data, 1, Len(log[i].payload.data))
                  = log[i].payload.data
            /\ \A r \in Range(log[i].payload.data) : CountStored(KeyOf(r)) >= 2

\* C10 amended: the cursor stayed and the same rows were sent again; the
\* receiver never parsed the partial bytes, so at most the retry was
\* handled and the target holds none of the rows twice.
C10_NoDuplicatesAfterPartialWrite ==
    \A i \in 1..Len(log) :
        PartialWriteRetried(i) =>
            /\ log[i].after = log[i].before
            /\ SubSeq(log[i + 1].payload.data, 1, Len(log[i].payload.data))
                  = log[i].payload.data
            /\ \A r \in Range(log[i].payload.data) :
                  /\ CountStored(KeyOf(r)) <= 1
                  /\ Cardinality({n \in 1..Len(handled) :
                                     \E d \in Range(DataOf(handled[n])) :
                                         d.items = r}) <= 1

C10_Witness ==
    /\ PartialWriteRetried(1)
    /\ Len(handled) = 1
    /\ \A r \in Range(log[1].payload.data) : CountStored(KeyOf(r)) = 1

SchemaApplyFailed ==
    /\ Len(handled') = Len(handled) + 1
    /\ handled'[Len(handled')].fault = -1

\* C13: when apply_schema fails for a frame, handle_client_data inserts no
\* row of it, leaves the target as it was and returns False, which ends
\* the loop of the connection.
C13_SchemaFailureAbandonsFrame ==
    [][SchemaApplyFailed =>
          /\ store' = store
          /\ handled'[Len(handled')].inserts = <<>>
          /\ ~handled'[Len(handled')].ret
          /\ rpc' = "accept"]_vars

C13_Witness ==
    /\ handled # <<>>
    /\ handled[Len(handled)].fault = -1
    /\ DataOf(handled[Len(handled)]) # <<>>
    /\ store = EmptyStore
    /\ rpc = "accept"

\* the source rows a cycle that starts now has to extract
Due == {k \in source : k > last_sent_id}

\* C15: the cycle after a cycle that failed extracts the rows that are
\* due, which include the rows the failed cycle did not transmit, and the
\* sender stays in its loop.
C15_FailedCycleRetried ==
    [][(spc = "idle" /\ outcome \in FailedOutcomes /\ cycles' = cycles + 1
           /\ faults' = faults) =>
          /\ {KeyOf(row) : row \in Range(table_payload'.data)} = Due
          /\ spc' \in {"idle", "extracted"}]_vars

\* C18 as stated: of the cycles of a run that wrote their frame in full, at
\* most one carried the schema, and it was the first of them.
C18_SchemaAtMostOnce ==
    \A j \in 1..Len(log) :
        (log[j].outcome = "committed" /\ log[j].payload.schema # <<>>) =>
            \A i \in 1..(j - 1) : log[i].outcome # "committed"

\* C18 amended: a cycle reads and sends the schema only when it starts with
\* cursor 0 (every such cycle does when the catalog query succeeds), and
\* once a cycle has committed rows every later cycle sends no schema.
C18_SchemaWhileCursorZero ==
    \A j \in 1..Len(log) :
        /\ log[j].payload.schema # <<>> => log[j].before.mem = 0
        /\ (log[j].outcome = "committed" /\ log[j].before.mem = 0 /\ faults = 0) =>
              log[j].payload.schema = SentSchema
        /\ \A i \in 1..(j - 1) :
              (log[i].outcome = "committed" /\ log[i].payload.data # <<>>) =>
                  log[j].payload.schema = <<>>

C18_Witness ==
    /\ Len(log) = 2
    /\ log[1].outcome = "committed"
    /\ log[1].payload.schema # <<>>
    /\ log[1].payload.data # <<>>
    /\ log[2].outcome = "committed"
    /\ log[2].payload.schema = <<>>
    /\ log[2].payload.data # <<>>

\* C19: without a failure query_table returns the source rows with an id
\* above the cursor, all of them and no other, in ascending id order, and
\* as new_last_sent_id the largest of their ids, or the cursor when there
\* is none; for cursor 0 as for any other.
C19_QueryTable ==
    outcome # "none" =>
        LET rows == table_payload.data
        IN  /\ {KeyOf(row) : row \in Range(rows)} = Due
            /\ \A i \in 1..Len(rows) : rows[i] = RowOf(KeyOf(rows[i]))
            /\ \A i, j \in 1..Len(rows) : i < j => KeyOf(rows[i]) < KeyOf(rows[j])
            /\ table_payload.new_last_sent_id =
                  IF Due = {} THEN last_sent_id ELSE SetMax(Due)

\* rows below and above a cursor other than 0, and a table read from 0
C19_Witness ==
    /\ outcome # "none"
    /\ \/ /\ last_sent_id = 2
          /\ source = {1, 2, 3, 4}
          /\ table_payload.data = <<RowOf(3), RowOf(4)>>
       \/ /\ last_sent_id = 0
          /\ source = {1, 3}
          /\ table_payload.new_last_sent_id = 3

\* cycle i of the history was stopped with its frame written in full and
\* its cursor not saved
LostCommit(i) ==
    /\ log[i].outcome = "stopped"
    /\ log[i].payload.data # <<>>
    /\ log[i].written = Len(encode(log[i].payload))

\* q starts with p
IsPrefix(p, q) == Len(p) <= Len(q) /\ SubSeq(q, 1, Len(p)) = p

\* C11: after a sender was stopped with a frame written in full and the
\* cursor not saved, the first cycle of the next run extracts the rows of
\* that frame again, and once that cycle is committed and handled each of
\* those rows is in the target table twice at least (no failure injected).
C11_ResentRowsInsertedTwice ==
    \A i \in 1..(Len(log) - 1) :
        (LostCommit(i) /\ faults = 0) =>
            /\ IsPrefix(log[i].payload.data, log[i + 1].payload.data)
            /\ (log[i + 1].outcome = "committed" /\ ReceiverDone) =>
                  \A row \in Range(log[i].payload.data) : CountStored(KeyOf(row)) >= 2

\* C16: a stop of the sender takes effect between two cycles: no cycle is
\* cut short by it after a part of its frame was written, the rest never
\* written.
C16_NoFrameTornByStop ==
    \A i \in 1..Len(log) :
        log[i].outcome = "stopped" =>
            ~(0 < log[i].written /\ log[i].written < Len(encode(log[i].payload)))

\* the cursor of the last cycle of the history that committed rows
CommittedCursor ==
    LET done == {i \in 1..Len(log) :
                    log[i].outcome = "committed" /\ log[i].payload.data # <<>>}
    IN  IF done = {} THEN 0 ELSE log[SetMax(done)].payload.new_last_sent_id

C14_ReceiverSurvivesConnection == rpc \in {"accept", "reading", "stopped"}

\* C17: a frame whose application the shutdown met is applied to its end:
\* insert_row was called for each of its rows (no failure injected).
C17_ApplicationFinished ==
    \A n \in 1..Len(handled) :
        (handled[n].interrupted /\ faults = 0) =>
            Len(handled[n].inserts) = Len(DataOf(handled[n]))

\* C21: the sender never has more than one socket open, the one of the
\* cycle that is transmitting, and none while it waits for its next cycle.
C21_OneConnectionPerCycle ==
    /\ sockets <= 1
    /\ client_open <=> sockets = 1
    /\ sockets = 1 => spc = "sending"
    /\ spc \in {"start", "idle"} => sockets = 0

\* the sender waits after two cycles that each opened a connection
C21_Witness ==
    /\ spc = "idle"
    /\ sockets = 0
    /\ Len(log) = 2
    /\ log[1].outcome = "write_failed"
    /\ log[2].outcome = "committed"

C23_RowsMappedByTableSchema ==
    \A n \in 1..Len(handled) :
        LET h == handled[n]
        IN  (faults = 0 /\ TableExists(store)) =>
               /\ Len(h.inserts) = Len(DataOf(h))
               /\ \A i \in 1..Len(h.inserts) :
                     /\ Len(h.inserts[i].row_dict) = Len(DataOf(h)[i].items)
                     /\ \A j \in 1..Len(h.inserts[i].row_dict) :
                           /\ h.inserts[i].row_dict[j].k = TableCols(store)[j].name
                           /\ h.inserts[i].row_dict[j].v = DataOf(h)[i].items[j]

\* the frames of the payloads the receiver has handled, one after the other
RECURSIVE HandledText(_)
HandledText(hs) ==
    IF hs = <<>> THEN <<>>
    ELSE HandledText(SubSeq(hs, 1, Len(hs) - 1)) \o dumps(hs[Len(hs)].payload)

\* C24: when the connection has ended, the receiver has decoded and handled
\* every frame written on it, in the order written, however the bytes came
\* in chunks.
C24_EveryFrameHandled ==
    (spc = "idle" /\ rpc = "accept") =>
        /\ HandledText(handled) = wire
        /\ \A n \in 1..Len(handled) : handled[n].ret

\* two frames handled, the chunks having ended where the frames end
StreamAligned ==
    /\ spc = "idle"
    /\ rpc = "accept"
    /\ Len(handled) = 2
    /\ HandledText(handled) = wire

\* C25: a connection that ends with bytes in the buffer that form no
\* frame leaves the target store as it is, and the store changes only in
\* the step that has parsed a complete frame: nothing is applied from the
\* bytes of an incomplete one.
C25_IncompleteFrameAppliesNothing ==
    [][/\ (rpc = "reading" /\ rpc' = "accept" /\ handled' = handled) => store' = store
       /\ store' # store => Len(handled') = Len(handled) + 1]_vars

\* the second connection was closed after a part of its frame and read to
\* its end, the target holding the table the first frame created
C25_Witness ==
    /\ Len(log) = 2
    /\ log[1].outcome = "committed"
    /\ log[2].outcome = "write_failed"
    /\ log[2].written > 0
    /\ log[2].payload.data # <<>>
    /\ rpc = "accept"
    /\ received = log[2].written
    /\ Len(handled) = 1
    /\ TableExists(store)
    /\ store.rows = <<>>

\* C26: the receiver has at most one accepted socket open, the one it
\* reads, and it accepts a connection only in its accept, with the loop of
\* the connection before ended and that socket closed.
C26_OneConnectionServed ==
    [][/\ serving' <= 1
       /\ rpc' = "reading" <=> serving' = 1
       /\ serving' > serving => (rpc = "accept" /\ serving = 0)]_vars

\* a second connection is served, the first one handled and closed
C26_Witness ==
    /\ Len(log) = 1
    /\ log[1].outcome = "committed"
    /\ Len(handled) = 1
    /\ cycles = 2
    /\ rpc = "reading"
    /\ serving = 1
    /\ received > 0

\* C27: the program, once started, loads the cursor and comes to a first
\* extraction cycle.
C27_FirstCycleEventually == spc = "start" ~> (cursor_file.exists /\ cycles > 0)

====
